---- MODULE Spec2Model ----
(***************************************************************************)
(* Model of diffsitter's configuration loading (src/config.rs).            *)
(*                                                                         *)
(* State: the command line arguments, the file system and environment the  *)
(* process sees, and the progress of one call of Config::new,              *)
(* Config::try_from_file or fig_file_format_helper.                        *)
(*                                                                         *)
(* A path is the sequence of the characters of its file name, so that      *)
(* Path::extension is computed (the text after the last dot, without the   *)
(* dot) and compared with the literals of the source.                      *)
(*                                                                         *)
(* The figment, json5 and xdg crates are not part of the repository; the   *)
(* model follows their documented behaviour at the call sites:             *)
(*   - Figment::merge of a file provider reads the file when merged, a     *)
(*     missing file gives an empty layer, any error is kept in the figment *)
(*     and returned by extract;                                            *)
(*   - xdg::BaseDirectories::with_prefix fails without a resolvable home;  *)
(*     place_config_file creates the leading directories of the returned   *)
(*     path and fails when it cannot.                                      *)
(*   - directories_next::ProjectDirs::from (the windows build) is None      *)
(*     without a resolvable home and creates nothing.                      *)
(***************************************************************************)
EXTENDS Naturals, Sequences, FiniteSets

\* Number of distinct values a configuration field can be set to.
NumValues == 2

Values == 1 .. NumValues

\* Two of the fields of Config, under their kebab-case names (serde rename_all).
Fields == {"fallback-cmd", "file-associations"}

\* Config::default(): both Option fields are None, written 0.
NoneVal == 0

DefaultConfig == [f \in Fields |-> NoneVal]

\* A fragment holds the fields a source sets; a missing key is "not specified".
Frags == UNION {[S -> Values] : S \in SUBSET Fields}

EmptyFrag == [f \in {} |-> 1]

\* Field-by-field overlay of a fragment on a configuration (figment's merge).
Overlay(acc, frag) ==
    [f \in Fields |-> IF f \in DOMAIN frag THEN frag[f] ELSE acc[f]]

-----------------------------------------------------------------------------
\* Paths

\* CFG_FILE_NAME = "config.json5", the file name of the default location.
CFG_FILE_NAME == <<"c", "o", "n", "f", "i", "g", ".", "j", "s", "o", "n", "5">>

PJson == <<"a", ".", "j", "s", "o", "n">>

PJson5 == <<"a", ".", "j", "s", "o", "n", "5">>

PToml == <<"a", ".", "t", "o", "m", "l">>

PYaml == <<"a", ".", "y", "a", "m", "l">>

PNoExt == <<"a">>

\* A hidden file: its only dot is the first character.
PHidden == <<".", "t", "o", "m", "l">>

\* Paths that --config can name.
ExplicitPaths == {PJson, PJson5, PToml, PYaml, PNoExt, PHidden}

AllPaths == ExplicitPaths \cup {CFG_FILE_NAME}

None == [tag |-> "None"]

Some(x) == [tag |-> "Some", val |-> x]

MaxOf(S) == CHOOSE m \in S : \A n \in S : n <= m

\* Path::extension: None when the file name has no dot or its only dot is the
\* first character; otherwise the text after the last dot, the dot excluded.
Extension(path) ==
    LET dots == {i \in 1 .. Len(path) : path[i] = "."}
    IN  IF dots = {} THEN None
        ELSE IF MaxOf(dots) = 1 THEN None
        ELSE Some(SubSeq(path, MaxOf(dots) + 1, Len(path)))

-----------------------------------------------------------------------------
\* Files and environment

Missing == [kind |-> "missing"]

Unreadable == [kind |-> "unreadable"]

\* Text of a file: its syntax, whether its values have the types of Config's
\* fields, and the fields it sets. "json" text is valid JSON (and so JSON5).
Text(syntax, typed, frag) ==
    [kind |-> "text", syntax |-> syntax, typed |-> typed, frag |-> frag]

Garbage == Text("garbage", TRUE, EmptyFrag)

ConfigTexts ==
    {Text(s, TRUE, fr) : s \in {"json", "toml"}, fr \in Frags}
        \cup {Text(s, FALSE, EmptyFrag) : s \in {"json", "toml"}}

FileStates == {Missing, Unreadable, Garbage} \cup ConfigTexts

\* DIFFSITTER_-prefixed variables: the fields they set, and whether every
\* value coerces to its field's type.
EnvStates ==
    {[typed |-> TRUE, frag |-> fr] : fr \in Frags}
        \cup {[typed |-> FALSE, frag |-> EmptyFrag]}

ArgsSet == [no_config : BOOLEAN, config : {None} \cup {Some(p) : p \in ExplicitPaths}]

-----------------------------------------------------------------------------
\* Results

Ok(x) == [tag |-> "Ok", val |-> x]

Err(kind, path) == [tag |-> "Err", kind |-> kind, path |-> path]

\* Stands for "no path" in an error that names none.
NoPath == <<>>

-----------------------------------------------------------------------------
\* default_config_file_path: the path, and the state of the configuration
\* directory after the call. os: the target of the build; h: a home directory
\* is resolvable; d: the directory of the default location is "present",
\* "absent" (and can be created) or "blocked" (and cannot).
\* not(windows): with_prefix, then place_config_file, which creates the
\* directory when it is absent. windows: ProjectDirs::from, then a path push.
DefaultConfigFilePath(os, h, d) ==
    IF os = "windows"
    THEN IF ~h THEN [res |-> Err("no-project-dirs", NoPath), dir |-> d]
         ELSE [res |-> Ok(CFG_FILE_NAME), dir |-> d]
    ELSE IF ~h THEN [res |-> Err("xdg", NoPath), dir |-> d]
    ELSE IF d = "blocked" THEN [res |-> Err("io", NoPath), dir |-> d]
    ELSE [res |-> Ok(CFG_FILE_NAME), dir |-> "present"]

\* Variant: the --no-config flag is not looked at.
ConfigFilePathHelperNoSkip(a, os, h, d) ==
    LET res0 == IF a.config.tag = "Some" THEN <<a.config.val>> ELSE <<>>
        r == DefaultConfigFilePath(os, h, d)
    IN  IF r.res.tag = "Ok"
        THEN [res |-> Ok(Append(res0, r.res.val)), dir |-> r.dir, consulted |-> 1]
        ELSE [res |-> r.res, dir |-> r.dir, consulted |-> 1]

\* Variant: a failure of default_config_file_path is dropped when --config
\* names a path.
ConfigFilePathHelperLenient(a, os, h, d) ==
    IF a.no_config
    THEN [res |-> Ok(<<>>), dir |-> d, consulted |-> 0]
    ELSE LET res0 == IF a.config.tag = "Some" THEN <<a.config.val>> ELSE <<>>
             r == DefaultConfigFilePath(os, h, d)
         IN  IF r.res.tag = "Ok"
             THEN [res |-> Ok(Append(res0, r.res.val)), dir |-> r.dir, consulted |-> 1]
             ELSE IF res0 # <<>>
             THEN [res |-> Ok(res0), dir |-> r.dir, consulted |-> 1]
             ELSE [res |-> r.res, dir |-> r.dir, consulted |-> 1]

\* config_file_path_helper: candidate paths, highest precedence first.
\* consulted: number of calls of default_config_file_path it made.
ConfigFilePathHelper(a, os, h, d) ==
    IF a.no_config
    THEN [res |-> Ok(<<>>), dir |-> d, consulted |-> 0]
    ELSE LET res0 == IF a.config.tag = "Some" THEN <<a.config.val>> ELSE <<>>
             r == DefaultConfigFilePath(os, h, d)
         IN  IF r.res.tag = "Ok"
             THEN [res |-> Ok(Append(res0, r.res.val)), dir |-> r.dir, consulted |-> 1]
             ELSE [res |-> r.res, dir |-> r.dir, consulted |-> 1]

-----------------------------------------------------------------------------
\* Figment

\* Figment::from(Serialized::defaults(Config::default())).
BaseFigment ==
    [layers |-> <<[src |-> "defaults"]>>, val |-> DefaultConfig, err |-> None]

FileLayer(fmt, path) == [src |-> "file", fmt |-> fmt, path |-> path]

FirstErr(old, new) == IF old.tag = "Some" THEN old ELSE Some(new)

\* fig.merge(Json::file(path)) / fig.merge(Toml::file(path)): the figment
\* after the merge and the files the provider opened. A file that does not
\* exist is an empty layer; text is parsed with the provider's format.
MergeFile(fg, fmt, path, files) ==
    LET st == files[path]
        layers == Append(fg.layers, FileLayer(fmt, path))
    IN  IF st.kind = "missing"
        THEN [fig |-> [fg EXCEPT !.layers = layers], opened |-> {}]
        ELSE IF st.kind = "unreadable"
        THEN [fig |-> [fg EXCEPT !.layers = layers,
                                 !.err = FirstErr(fg.err, Err("io", path))],
              opened |-> {path}]
        ELSE IF st.syntax = fmt /\ st.typed
        THEN [fig |-> [fg EXCEPT !.layers = layers,
                                 !.val = Overlay(fg.val, st.frag)],
              opened |-> {path}]
        ELSE [fig |-> [fg EXCEPT !.layers = layers,
                                 !.err = FirstErr(fg.err, Err("deserialize", path))],
              opened |-> {path}]

\* The literals of the match in fig_file_format_helper.
DotJson == <<".", "j", "s", "o", "n">>

DotJson5 == <<".", "j", "s", "o", "n", "5">>

DotToml == <<".", "t", "o", "m", "l">>

\* Variant: a path whose extension is not recognised is read as JSON.
FigFileFormatHelperJsonFallback(fg, path, files) ==
    LET ext == Extension(path)
    IN  IF ext.tag = "Some" /\ ext.val = DotToml
        THEN LET m == MergeFile(fg, "toml", path, files)
             IN  [res |-> Ok(m.fig), opened |-> m.opened]
        ELSE LET m == MergeFile(fg, "json", path, files)
             IN  [res |-> Ok(m.fig), opened |-> m.opened]

\* fig_file_format_helper(fig, path).
FigFileFormatHelper(fg, path, files) ==
    LET ext == Extension(path)
    IN  IF ext.tag = "None"
        THEN [res |-> Err("no-valid-extension", path), opened |-> {}]
        ELSE IF ext.val \in {DotJson, DotJson5}
        THEN LET m == MergeFile(fg, "json", path, files)
             IN  [res |-> Ok(m.fig), opened |-> m.opened]
        ELSE IF ext.val = DotToml
        THEN LET m == MergeFile(fg, "toml", path, files)
             IN  [res |-> Ok(m.fig), opened |-> m.opened]
        ELSE [res |-> Err("unrecognized-extension", path), opened |-> {}]

\* fig.merge(Env::prefixed(ENV_CFG_PREFIX)) followed by fig.extract().
MergeEnvExtract(fg, e) ==
    IF fg.err.tag = "Some" THEN fg.err.val
    ELSE IF ~e.typed THEN Err("deserialize-env", NoPath)
    ELSE Ok(Overlay(fg.val, e.frag))

-----------------------------------------------------------------------------
\* The configuration a file's text deserializes to with json5::from_str, the
\* fields it omits taken from `base`.
Json5FromStr(st, base, fp) ==
    IF st.syntax = "json" /\ st.typed
    THEN Ok(Overlay(base, st.frag))
    ELSE Err("DeserializationFailure", fp)

\* Variant: the file is layered over the default-location file.
TryFromFileLayered(path, files, os, h, d) ==
    LET r == IF path.tag = "Some"
             THEN [res |-> Ok(path.val), dir |-> d]
             ELSE DefaultConfigFilePath(os, h, d)
        consulted == IF path.tag = "Some" THEN 0 ELSE 1
        dflt == files[CFG_FILE_NAME]
        base == IF dflt.kind = "text" /\ dflt.syntax = "json" /\ dflt.typed
                THEN Overlay(DefaultConfig, dflt.frag)
                ELSE DefaultConfig
    IN  IF r.res.tag = "Err"
        THEN [res |-> Err("NoDefault", NoPath), opened |-> {},
              consulted |-> consulted, dir |-> r.dir]
        ELSE LET fp == r.res.val
                 st == files[fp]
             IN  [res |-> IF st.kind \in {"missing", "unreadable"}
                          THEN Err("ReadFileFailure", fp)
                          ELSE Json5FromStr(st, base, fp),
                  opened |-> {fp, CFG_FILE_NAME},
                  consulted |-> consulted,
                  dir |-> r.dir]

\* Variant: when the given file cannot be read, the default location is read.
TryFromFileFallback(path, files, os, h, d) ==
    LET r == DefaultConfigFilePath(os, h, d)
        given == path.tag = "Some" /\ files[path.val].kind = "text"
    IN  IF given
        THEN [res |-> Json5FromStr(files[path.val], DefaultConfig, path.val),
              opened |-> {path.val}, consulted |-> 0, dir |-> d]
        ELSE IF r.res.tag = "Err"
        THEN [res |-> Err("NoDefault", NoPath),
              opened |-> IF path.tag = "Some" THEN {path.val} ELSE {},
              consulted |-> 1, dir |-> r.dir]
        ELSE LET fp == r.res.val
                 st == files[fp]
             IN  [res |-> IF st.kind \in {"missing", "unreadable"}
                          THEN Err("ReadFileFailure", fp)
                          ELSE Json5FromStr(st, DefaultConfig, fp),
                  opened |-> IF path.tag = "Some" THEN {path.val, fp} ELSE {fp},
                  consulted |-> 1,
                  dir |-> r.dir]

\* Config::try_from_file(path): the result, the files it opened, the number of
\* calls of default_config_file_path, and the configuration directory.
TryFromFile(path, files, os, h, d) ==
    LET r == IF path.tag = "Some"
             THEN [res |-> Ok(path.val), dir |-> d]
             ELSE DefaultConfigFilePath(os, h, d)
        consulted == IF path.tag = "Some" THEN 0 ELSE 1
    IN  IF r.res.tag = "Err"
        THEN [res |-> Err("NoDefault", NoPath), opened |-> {},
              consulted |-> consulted, dir |-> r.dir]
        ELSE LET fp == r.res.val
                 st == files[fp]
             IN  [res |-> IF st.kind \in {"missing", "unreadable"}
                          THEN Err("ReadFileFailure", fp)
                          ELSE Json5FromStr(st, DefaultConfig, fp),
                  opened |-> {fp},
                  consulted |-> consulted,
                  dir |-> r.dir]

-----------------------------------------------------------------------------
VARIABLES
    args,        \* cli::Args: no_config and config
    fs,          \* the state of the file at each path
    env,         \* the DIFFSITTER_ environment variables
    targetOs,    \* target_os of the build: "unix" or "windows"
    home,        \* a home directory is resolvable
    cfgDir,      \* state of the directory of the default location
    pc,          \* "idle", "merge" (the loop of Config::new), "done"
    op,          \* the function that was called
    cfg_paths,   \* Config::new: the result of config_file_path_helper
    idx,         \* Config::new: paths of cfg_paths not yet merged (rev order)
    fig,         \* Config::new: the figment
    result,      \* the returned value
    opened,      \* files opened by the call
    consulted,   \* calls of default_config_file_path made by the call
    created,     \* directories created by the call
    helperCall   \* last call of fig_file_format_helper: path, figment, outcome

vars == <<args, fs, env, targetOs, home, cfgDir, pc, op, cfg_paths, idx, fig, result,
          opened, consulted, created, helperCall>>

world == <<args, fs, env, targetOs, home>>

Created(before, after) == IF before # after THEN {"diffsitter"} ELSE {}

Init ==
    /\ args \in ArgsSet
    /\ env \in EnvStates
    /\ targetOs \in {"unix", "windows"}
    /\ \E h \in BOOLEAN, d \in {"present", "absent", "blocked"},
          fd \in FileStates, fe \in FileStates :
          \* a file exists only at a path that can be named and in a
          \* directory that exists
          /\ ~h => d = "absent"
          /\ targetOs = "windows" => d # "blocked"
          /\ fd # Missing => (h /\ d = "present")
          /\ fe # Missing => args.config.tag = "Some"
          /\ home = h
          /\ cfgDir = d
          /\ fs = [p \in AllPaths |->
                     IF p = CFG_FILE_NAME THEN fd
                     ELSE IF args.config = Some(p) THEN fe
                     ELSE Missing]
    /\ pc = "idle"
    /\ op = "none"
    /\ cfg_paths = <<>>
    /\ idx = 0
    /\ fig = BaseFigment
    /\ result = None
    /\ opened = {}
    /\ consulted = 0
    /\ created = {}
    /\ helperCall = None

\* Config::new, up to the loop: the figment of the defaults and cfg_paths.
NewResolve ==
    /\ pc = "idle"
    /\ LET r == ConfigFilePathHelper(args, targetOs, home, cfgDir)
       IN  /\ op' = "new"
           /\ fig' = BaseFigment
           /\ consulted' = r.consulted
           /\ cfgDir' = r.dir
           /\ created' = Created(cfgDir, r.dir)
           /\ IF r.res.tag = "Ok"
              THEN /\ cfg_paths' = r.res.val
                   /\ idx' = Len(r.res.val)
                   /\ pc' = "merge"
                   /\ result' = result
              ELSE /\ pc' = "done"
                   /\ result' = r.res
                   /\ UNCHANGED <<cfg_paths, idx>>
    /\ UNCHANGED <<world, opened, helperCall>>

\* One iteration of `for path in cfg_paths.iter().rev()`.
NewMergeFile ==
    /\ pc = "merge"
    /\ idx > 0
    /\ LET path == cfg_paths[idx]
           r == FigFileFormatHelper(fig, path, fs)
       IN  /\ helperCall' = Some([path |-> path, fig |-> fig, out |-> r])
           /\ opened' = opened \cup r.opened
           /\ IF r.res.tag = "Ok"
              THEN /\ fig' = r.res.val
                   /\ idx' = idx - 1
                   /\ UNCHANGED <<pc, result>>
              ELSE /\ pc' = "done"
                   /\ result' = r.res
                   /\ UNCHANGED <<fig, idx>>
    /\ UNCHANGED <<world, cfgDir, op, cfg_paths, consulted, created>>

\* After the loop: merge the environment and extract.
NewExtract ==
    /\ pc = "merge"
    /\ idx = 0
    /\ result' = MergeEnvExtract(fig, env)
    /\ pc' = "done"
    /\ UNCHANGED <<world, cfgDir, op, cfg_paths, idx, fig, opened, consulted,
                   created, helperCall>>

\* Config::try_from_file(args.config).
TryFromFileCall ==
    /\ pc = "idle"
    /\ LET r == TryFromFile(args.config, fs, targetOs, home, cfgDir)
       IN  /\ op' = "try_from_file"
           /\ result' = r.res
           /\ opened' = r.opened
           /\ consulted' = r.consulted
           /\ cfgDir' = r.dir
           /\ created' = Created(cfgDir, r.dir)
    /\ pc' = "done"
    /\ UNCHANGED <<world, cfg_paths, idx, fig, helperCall>>

\* fig_file_format_helper applied to the figment of the defaults and a path.
FormatHelperCall ==
    /\ pc = "idle"
    /\ \E path \in {p \in AllPaths : p = CFG_FILE_NAME \/ args.config = Some(p)} :
          LET r == FigFileFormatHelper(BaseFigment, path, fs)
          IN  /\ helperCall' = Some([path |-> path, fig |-> BaseFigment, out |-> r])
              /\ opened' = r.opened
              /\ result' = r.res
    /\ op' = "fig_file_format_helper"
    /\ pc' = "done"
    /\ UNCHANGED <<world, cfgDir, cfg_paths, idx, fig, consulted, created>>

Next ==
    \/ NewResolve
    \/ NewMergeFile
    \/ NewExtract
    \/ TryFromFileCall
    \/ FormatHelperCall

Spec == Init /\ [][Next]_vars

-----------------------------------------------------------------------------
\* Vocabulary of the properties

\* The extensions the documentation of fig_file_format_helper supports.
JsonExts == {<<"j", "s", "o", "n">>, <<"j", "s", "o", "n", "5">>}

TomlExts == {<<"t", "o", "m", "l">>}

HasExtIn(path, exts) ==
    Extension(path).tag = "Some" /\ Extension(path).val \in exts

HasSupportedExt(path) == HasExtIn(path, JsonExts \cup TomlExts)

\* The file at `path` is a well-formed, well-typed config in the format its
\* extension announces.
ValidFor(path) ==
    /\ fs[path].kind = "text"
    /\ fs[path].typed
    /\ \/ HasExtIn(path, JsonExts) /\ fs[path].syntax = "json"
       \/ HasExtIn(path, TomlExts) /\ fs[path].syntax = "toml"

\* The file at `path` exists and is not a well-formed, well-typed config.
Malformed(path) ==
    /\ fs[path].kind = "text"
    /\ ~ValidFor(path)

\* The fields the source at `path` sets (none when the file does not exist).
FragOf(path) == IF fs[path].kind = "text" THEN fs[path].frag ELSE EmptyFrag

\* default_config_file_path fails in this environment. (The call leaves home
\* alone and never blocks the directory, so this reads the same before and
\* after it.)
ResolverFails == ~home \/ (targetOs = "unix" /\ cfgDir = "blocked")

Explicit == IF args.config.tag = "Some" THEN <<args.config.val>> ELSE <<>>

LoadDone == op = "new" /\ pc = "done"

\* A hierarchical load whose every source is absent or valid: the resolver
\* succeeds, each candidate file is missing or valid for its extension, and
\* the environment coerces.
CleanSources ==
    /\ ~args.no_config
    /\ ~ResolverFails
    /\ env.typed
    /\ \A i \in 1 .. Len(Explicit) :
          /\ HasSupportedExt(Explicit[i])
          /\ fs[Explicit[i]].kind = "missing" \/ ValidFor(Explicit[i])
    /\ fs[CFG_FILE_NAME].kind = "missing" \/ ValidFor(CFG_FILE_NAME)

ExplicitFrag == IF Explicit = <<>> THEN EmptyFrag ELSE FragOf(Explicit[1])

-----------------------------------------------------------------------------
\* C1: in a hierarchical load (no_config = false) whose sources are all absent
\* or valid, every field of the result has the value of the environment if the
\* environment sets it, else of the explicit file, else of the default-location
\* file, else the built-in default.
C1_Precedence ==
    (LoadDone /\ CleanSources) =>
        result = Ok(Overlay(Overlay(Overlay(DefaultConfig, FragOf(CFG_FILE_NAME)),
                                    ExplicitFrag),
                            env.frag))

\* C2: fig_file_format_helper on a path whose extension is json or json5 merges
\* that file with the JSON provider, on a path whose extension is toml with the
\* TOML provider, and never answers with the unsupported-format error.
C2_SupportedExtensionsAccepted ==
    (helperCall.tag = "Some" /\ HasSupportedExt(helperCall.val.path)) =>
        LET c == helperCall.val
            fmt == IF HasExtIn(c.path, JsonExts) THEN "json" ELSE "toml"
        IN  /\ c.out.res.tag = "Ok"
            /\ c.out.res.val.layers = Append(c.fig.layers, FileLayer(fmt, c.path))

\* C3: with no_config set, config_file_path_helper returns the empty list
\* without calling default_config_file_path, whether or not --config is given;
\* the load opens no file, creates nothing, fails for no file and no path
\* resolution, and returns the built-in defaults with only the environment
\* applied.
C3_NoConfigSkipsFiles ==
    (op = "new" /\ args.no_config) =>
        /\ cfg_paths = <<>>
        /\ consulted = 0
        /\ opened = {}
        /\ created = {}
        /\ helperCall = None
        /\ pc = "done" =>
              result = IF env.typed
                       THEN Ok(Overlay(DefaultConfig, env.frag))
                       ELSE Err("deserialize-env", NoPath)

C3_Witness ==
    /\ LoadDone
    /\ args.no_config
    /\ args.config.tag = "Some"
    /\ fs[args.config.val] = Garbage
    /\ ResolverFails
    /\ env.frag # EmptyFrag
    /\ result.tag = "Ok"

\* C4: in a hierarchical load whose sources are all absent or valid, a field
\* set by the default-location file and set by neither the explicit file nor
\* the environment keeps the default-location file's value (fallback-cmd set
\* to "diff" in the default location gives fallback_cmd = Some("diff")).
C4_DeepMerge ==
    (LoadDone /\ CleanSources) =>
        \A f \in DOMAIN FragOf(CFG_FILE_NAME) :
            (f \notin DOMAIN ExplicitFrag /\ f \notin DOMAIN env.frag) =>
                /\ result.tag = "Ok"
                /\ result.val[f] = FragOf(CFG_FILE_NAME)[f]

\* C5: fig_file_format_helper on a path with no extension or with an extension
\* other than json, json5 and toml returns an error, opens no file and leaves
\* the figment as it was; an error it returns inside Config::new ends the load
\* with that error.
C5_UnsupportedExtensionFails ==
    helperCall.tag = "Some" =>
        LET c == helperCall.val
        IN  /\ ~HasSupportedExt(c.path) =>
                  /\ c.out.res.tag = "Err"
                  /\ c.out.res.path = c.path
                  /\ c.out.opened = {}
                  /\ c.path \notin opened
                  /\ fig = c.fig
            /\ (op = "new" /\ c.out.res.tag = "Err") =>
                  /\ pc = "done"
                  /\ result = c.out.res
                  /\ fig = c.fig

C5_Witness ==
    /\ helperCall.tag = "Some"
    /\ helperCall.val.path = PYaml
    /\ fs[PYaml].kind = "text"
    /\ fs[PYaml].syntax = "json"
    /\ result.tag = "Err"
    /\ opened = {}

\* C6: in a hierarchical load, candidate files that do not exist (at paths
\* with a supported extension) contribute nothing and do not make the load
\* fail; a candidate file that exists and is malformed makes the load return
\* an error.
C6_MissingAbsentMalformedFails ==
    /\ (/\ LoadDone
        /\ CleanSources
        /\ \A i \in 1 .. Len(Explicit) : fs[Explicit[i]].kind = "missing"
        /\ fs[CFG_FILE_NAME].kind = "missing")
          => result = Ok(Overlay(DefaultConfig, env.frag))
    /\ (/\ LoadDone
        /\ ~args.no_config
        /\ ~ResolverFails
        /\ \/ Malformed(CFG_FILE_NAME)
           \/ \E i \in 1 .. Len(Explicit) : Malformed(Explicit[i]))
          => result.tag = "Err"

\* The path Config::try_from_file reads: the given one, else the default.
ChosenPath == IF args.config.tag = "Some" THEN args.config.val ELSE CFG_FILE_NAME

\* C7 as stated: try_from_file with Some(path) dispatches on the file's format
\* and returns, for every valid config file (JSON or TOML), Ok with the file's
\* values, reading that path only and never the default-path resolver.
C7_AsStated ==
    (op = "try_from_file" /\ args.config.tag = "Some" /\ ValidFor(ChosenPath)) =>
        /\ result = Ok(Overlay(DefaultConfig, fs[ChosenPath].frag))
        /\ opened = {ChosenPath}
        /\ consulted = 0

\* C7, amended: try_from_file with Some(path) opens that path only, calls no
\* default-path resolver and creates nothing; it parses the text as JSON5
\* whatever the extension: valid JSON5 gives Ok with the file's values (the
\* built-in default for a field the file omits), whatever the environment and
\* the default-location file hold, and any other text, valid TOML included,
\* gives DeserializationFailure.
C7_StrictSingleSourceJson5 ==
    (op = "try_from_file" /\ args.config.tag = "Some") =>
        LET st == fs[ChosenPath]
        IN  /\ opened = {ChosenPath}
            /\ consulted = 0
            /\ created = {}
            /\ (st.kind = "text" /\ st.syntax = "json" /\ st.typed) =>
                  result = Ok(Overlay(DefaultConfig, st.frag))
            /\ (st.kind = "text" /\ st.syntax # "json") =>
                  result = Err("DeserializationFailure", ChosenPath)

C7_Witness ==
    /\ op = "try_from_file"
    /\ args.config = Some(PJson5)
    /\ ValidFor(PJson5)
    /\ DOMAIN fs[PJson5].frag = {"fallback-cmd"}
    /\ ValidFor(CFG_FILE_NAME)
    /\ DOMAIN FragOf(CFG_FILE_NAME) = Fields
    /\ env.typed
    /\ DOMAIN env.frag = Fields
    /\ FragOf(CFG_FILE_NAME)["fallback-cmd"] # fs[PJson5].frag["fallback-cmd"]
    /\ env.frag["fallback-cmd"] # fs[PJson5].frag["fallback-cmd"]
    /\ result = Ok(Overlay(DefaultConfig, fs[PJson5].frag))

\* C8: try_from_file returns NoDefault exactly when no path is given and the
\* default-path resolver fails, and then opens no file; otherwise
\* ReadFileFailure exactly when the chosen file cannot be read; otherwise
\* DeserializationFailure exactly when its text does not parse (as JSON5) or
\* type-check; otherwise Ok. It opens no path but the chosen one.
C8_ErrorOrder ==
    op = "try_from_file" =>
        LET st == fs[ChosenPath]
        IN  /\ pc = "done"
            /\ IF args.config.tag = "None" /\ ResolverFails
               THEN /\ result = Err("NoDefault", NoPath)
                    /\ opened = {}
               ELSE /\ opened = {ChosenPath}
                    /\ IF st.kind # "text"
                       THEN result = Err("ReadFileFailure", ChosenPath)
                       ELSE IF ~(st.syntax = "json" /\ st.typed)
                       THEN result = Err("DeserializationFailure", ChosenPath)
                       ELSE result.tag = "Ok"

C8_Witness ==
    /\ op = "try_from_file"
    /\ args.config.tag = "None"
    /\ ~ResolverFails
    /\ fs[CFG_FILE_NAME] = Garbage
    /\ result = Err("DeserializationFailure", CFG_FILE_NAME)

\* C9: no call creates a file or a directory: the directories that exist after
\* Config::new, config_file_path_helper, default_config_file_path or
\* Config::try_from_file are those that existed before.
C9_CreatesNothing == created = {}

\* C10 as stated: with no_config unset the candidates are the explicit path (if
\* given) then the default path; a failure of the default-path resolver is
\* dropped when an explicit path is given (the list is then that path alone)
\* and is returned only when none is given.
C10_AsStated ==
    (op = "new" /\ ~args.no_config) =>
        IF ~ResolverFails
        THEN cfg_paths = Explicit \o <<CFG_FILE_NAME>>
        ELSE IF Explicit # <<>>
        THEN cfg_paths = Explicit
        ELSE pc = "done" /\ result.tag = "Err"

\* C10, amended: with no_config unset config_file_path_helper calls the
\* default-path resolver once and returns the explicit path (if given) followed
\* by the default path; a failure of the resolver is returned as the error of
\* the load whether or not an explicit path is given.
C10_ResolverFailurePropagates ==
    (op = "new" /\ ~args.no_config) =>
        /\ consulted = 1
        /\ IF ResolverFails
           THEN /\ pc = "done"
                /\ result.tag = "Err"
                /\ result.kind \in {"xdg", "io", "no-project-dirs"}
                /\ cfg_paths = <<>>
                /\ opened = {}
           ELSE cfg_paths = Explicit \o <<CFG_FILE_NAME>>

C10_Witness ==
    /\ LoadDone
    /\ ~args.no_config
    /\ args.config = Some(PJson5)
    /\ ValidFor(PJson5)
    /\ ResolverFails
    /\ result = Err("xdg", NoPath)

====
